---- MODULE Spec2Model ----
(***************************************************************************)
(* Model of translation_bot.py: the module-level dictionary group_settings *)
(* and the coroutine handlers of class TranslationBot (start,              *)
(* help_command, toggle_translation, show_settings, handle_message).       *)
(*                                                                         *)
(* A handler is a coroutine: it runs without interruption from one await   *)
(* expression to the next.  Each handler is modelled by its program        *)
(* points; AwaitPoints are the points at which the coroutine is suspended  *)
(* in an await (a reply_text call or the get_chat_member lookup).  The     *)
(* outcome of an awaited call (it returns, or it raises) is chosen when    *)
(* the handler is resumed.                                                 *)
(*                                                                         *)
(* A message text is a run-length encoded string: a sequence of runs       *)
(* [ch, n] standing for n copies of the character ch, no two adjacent runs *)
(* having the same character, so that equal strings are equal sequences.   *)
(***************************************************************************)
EXTENDS Integers, Sequences, FiniteSets, TLC

\* ---------------------------------------------------------------- bounds
NumProcs == 2      \* handler invocations that may be in progress at once
NumChats == 3      \* chat ids 1..NumChats
MaxRuns == 2       \* runs in an inbound text
MaxToggles == 3    \* store writes in one behaviour

\* ------------------------------------------------------ program constants
MaxTextLen == 500  \* len(text) > 500
MinTextLen == 2    \* len(text.strip()) < 2

VARIABLES
    group_settings,  \* the dict group_settings: chat id -> bool, partial
    inbox,           \* the update the transport delivers next, or NoUpdate
    tasks,           \* the handler invocations in progress, by slot
    hist             \* history: per chat id, the writes made by /toggle

vars == <<group_settings, inbox, tasks, hist>>

Procs == 1..NumProcs
ChatIds == 1..NumChats

GroupTypes == {"group", "supergroup"}
AdminStatuses == {"administrator", "creator"}
MemberStatuses == {"member", "administrator", "creator"}

\* The type of a chat is a property of the chat.
ChatType(c) ==
    CASE c = 1 -> "supergroup"
      [] c = 2 -> "group"
      [] c = 3 -> "private"
      [] OTHER -> "channel"

\* ------------------------------------------------------------------ text
Chars == {"a", "/", " "}
Counts == {1, MaxTextLen}
RunSet == [ch : Chars, n : Counts]

Canonical(r) == \A i \in 1..(Len(r) - 1) : r[i].ch # r[i + 1].ch

RunsUpTo(k) == {r \in UNION {[1..j -> RunSet] : j \in 0..k} : Canonical(r)}

\* An optional string: None, or the string s.
NoneText == [none |-> TRUE, s |-> <<>>]
Str(r) == [none |-> FALSE, s |-> r]

\* len(s)
RECURSIVE StrLen(_)
StrLen(r) == IF r = <<>> THEN 0 ELSE Head(r).n + StrLen(Tail(r))

RECURSIVE LStrip(_)
LStrip(r) ==
    IF r = <<>> THEN r
    ELSE IF Head(r).ch = " " THEN LStrip(Tail(r)) ELSE r

RECURSIVE RStrip(_)
RStrip(r) ==
    IF r = <<>> THEN r
    ELSE IF r[Len(r)].ch = " " THEN RStrip(SubSeq(r, 1, Len(r) - 1)) ELSE r

\* s.strip()
Strip(r) == RStrip(LStrip(r))

\* s.startswith('/')
StartsWithSlash(r) == r # <<>> /\ Head(r).ch = "/"

\* not x, for an optional string x
Falsy(t) == t.none \/ StrLen(t.s) = 0

Hello == <<[ch |-> "a", n |-> 1], [ch |-> " ", n |-> 1], [ch |-> "a", n |-> 1]>>

\* ------------------------------------------------------------- updates
DetectRaises == "<raises>"
DetectOutcomes == {"en", "fr", DetectRaises}

\* What GoogleTranslator(...).translate(text) does for this message: it
\* raises, or it returns None, the empty string, the text itself or Hello.
TranslateOutcomes == {"raises", "none", "empty", "same", "hello"}

\* The value translate(text) returns for update u (when it does not raise).
Translated(u) ==
    CASE u.trans = "empty" -> Str(<<>>)
      [] u.trans = "same" -> u.text
      [] u.trans = "hello" -> Str(Hello)
      [] OTHER -> NoneText

NoUpdate ==
    [cmd |-> "none", is_bot |-> FALSE, fwd_channel |-> FALSE, chat_id |-> 0,
     text |-> NoneText, det |-> "en", trans |-> "none"]

Command(name, c) == [NoUpdate EXCEPT !.cmd = name, !.chat_id = c]

CommandUpdates(chats) ==
    {Command(name, c) : name \in {"start", "help", "toggle", "settings"}, c \in chats}

InboundTexts == {NoneText} \cup {Str(r) : r \in RunsUpTo(MaxRuns)}

TextUpdate(c, bot, fwd, t, d, tr) ==
    [cmd |-> "text", is_bot |-> bot, fwd_channel |-> fwd, chat_id |-> c,
     text |-> t, det |-> d, trans |-> tr]

\* The updates of the concurrent specification: one supergroup, a /toggle
\* and a text that is a translation candidate.
ConcChats == {c \in ChatIds : c = 1}
ConcUpdates ==
    {Command("toggle", c) : c \in ConcChats}
        \cup {TextUpdate(c, FALSE, FALSE, Str(<<[ch |-> "a", n |-> MaxTextLen]>>), "fr", "hello") :
                 c \in ConcChats}

\* ------------------------------------------------------ the settings dict
\* group_settings.get(c, default)
Get(gs, c, default) == IF c \in DOMAIN gs THEN gs[c] ELSE default

\* group_settings[c] = v
Put(gs, c, v) == [k \in (DOMAIN gs) \cup {c} |-> IF k = c THEN v ELSE gs[k]]

\* is_enabled(c) of the specification: group_settings.get(c, True)
IsEnabled(gs, c) == Get(gs, c, TRUE)

\* ------------------------------------------------------------- handlers
IdleFrame ==
    [pc |-> "idle", upd |-> NoUpdate, member |-> "", current |-> TRUE,
     detected |-> "", replies |-> <<>>]

Entry(cmd) ==
    CASE cmd = "start" -> "sc_start"
      [] cmd = "help" -> "hp_start"
      [] cmd = "toggle" -> "tg_start"
      [] cmd = "settings" -> "st_start"
      [] OTHER -> "hm_filters"

Terminal == {"done", "raised"}

\* The awaited calls: every reply_text call and the get_chat_member lookup.
CallPoints ==
    {"sc_reply", "hp_reply",
     "tg_reply_refuse", "tg_lookup", "tg_reply_deny", "tg_reply_permerr",
     "tg_reply_status", "tg_reply_failed",
     "st_reply_refuse", "st_reply_settings", "st_reply_failed",
     "hm_reply"}

\* Faults: the handler also yields between the read of group_settings (line 96)
\* and the write (line 97); the handler also yields in the translate call.
AwaitPoints_ReadWriteSplit == CallPoints \cup {"tg_write"}
AwaitPoints_TranslateYields == CallPoints \cup {"hm_translate"}

\* The program points at which a handler is suspended and other handlers may
\* run: the await expressions and nothing else (detect() and translate() are
\* plain calls; the read and the write of group_settings are plain statements).
AwaitPoints == CallPoints

LookupRaised == "<raised>"

\* What an awaited call can do: get_chat_member returns a member status or
\* raises; reply_text returns or raises.
AwaitOutcomes(pc) ==
    IF pc = "tg_lookup" THEN MemberStatuses \cup {"raise"} ELSE {"ok", "raise"}

Goto(S, label) == [S EXCEPT !.f.pc = label]

\* await update.message.reply_text(msg): the call is made, the handler waits.
Call(S, msg, label) ==
    [S EXCEPT !.f.replies = Append(@, [text |-> msg, result |-> "pending"]),
              !.f.pc = label]

Settle(S, res) == [S EXCEPT !.f.replies[Len(S.f.replies)].result = res]

\* --- handle_message: the guard clauses
SenderFilter(u) == u.is_bot

\* Fault: the chat type is compared with 'group' alone.
ScopeFilter_GroupOnly(u, gs) == ChatType(u.chat_id) = "group" /\ ~Get(gs, u.chat_id, TRUE)

ScopeFilter(u, gs) == ChatType(u.chat_id) \in GroupTypes /\ ~Get(gs, u.chat_id, TRUE)

TextFilter(u) == Falsy(u.text) \/ StrLen(Strip(u.text.s)) < MinTextLen

CommandFilter(u) == StartsWithSlash(u.text.s)

\* Fault: >= for >.
LengthFilter_OffByOne(u) == StrLen(u.text.s) >= MaxTextLen

LengthFilter(u) == StrLen(u.text.s) > MaxTextLen

Discards(u, gs) ==
    SenderFilter(u) \/ ScopeFilter(u, gs) \/ TextFilter(u) \/ CommandFilter(u)
        \/ LengthFilter(u)

\* --- toggle_translation
\* Fault: every member of the chat passes the permission check.
IsAdmin_AnyMember(status) == status \in MemberStatuses

IsAdmin(status) == status \in AdminStatuses

\* Fault: /toggle switches translation off whatever the current value.
ToggleValue_AlwaysOff(current) == FALSE

ToggleValue(current) == ~current

\* Fault: one flag shared by all chats.
ToggleWrite_AllChats(gs, c, v) == [k \in ChatIds |-> v]

ToggleWrite(gs, c, v) == Put(gs, c, v)

\* Fault: the two status strings exchanged.
StatusText_Swapped(enabled) == IF enabled THEN "status_disabled" ELSE "status_enabled"

StatusText(enabled) == IF enabled THEN "status_enabled" ELSE "status_disabled"

\* --- show_settings
SettingsText(enabled) == IF enabled THEN "settings_enabled" ELSE "settings_disabled"

\* One statement block of a handler, from a program point that is not an
\* awaited call.  S.f is the handler's frame, S.gs the dict, S.h the history.
Step(S) ==
    LET f == S.f
        u == S.f.upd
        c == S.f.upd.chat_id
    IN CASE f.pc = "sc_start" -> Call(S, "welcome", "sc_reply")
         [] f.pc = "hp_start" -> Call(S, "help", "hp_reply")
         [] f.pc = "tg_start" ->
              IF ChatType(c) \notin GroupTypes
              THEN Call(S, "refuse", "tg_reply_refuse")
              ELSE Goto(S, "tg_lookup")
         [] f.pc = "tg_check" ->
              IF ~IsAdmin(f.member)
              THEN Call(S, "deny", "tg_reply_deny")
              ELSE Goto(S, "tg_read")
         [] f.pc = "tg_inner_except" -> Call(S, "permerr", "tg_reply_permerr")
         [] f.pc = "tg_read" ->
              [S EXCEPT !.f.current = Get(S.gs, c, TRUE), !.f.pc = "tg_write"]
         [] f.pc = "tg_write" ->
              LET gs2 == ToggleWrite(S.gs, c, ToggleValue(f.current))
              IN [S EXCEPT !.gs = gs2,
                           !.h[c] = Append(@, [old |-> IsEnabled(S.gs, c),
                                               new |-> IsEnabled(gs2, c)]),
                           !.f.pc = "tg_status"]
         [] f.pc = "tg_status" -> Call(S, StatusText(S.gs[c]), "tg_reply_status")
         [] f.pc = "tg_except" -> Call(S, "failed", "tg_reply_failed")
         [] f.pc = "st_start" ->
              IF ChatType(c) \notin GroupTypes
              THEN Call(S, "refuse", "st_reply_refuse")
              ELSE Call(S, SettingsText(Get(S.gs, c, TRUE)), "st_reply_settings")
         [] f.pc = "st_except" -> Call(S, "failed", "st_reply_failed")
         [] f.pc = "hm_filters" ->
              IF Discards(u, S.gs) THEN Goto(S, "done") ELSE Goto(S, "hm_detect")
         [] f.pc = "hm_detect" ->
              IF u.det = DetectRaises
              THEN [S EXCEPT !.f.detected = "unknown", !.f.pc = "hm_translate"]
              ELSE IF u.det = "en"
                   THEN [S EXCEPT !.f.detected = u.det, !.f.pc = "done"]
                   ELSE [S EXCEPT !.f.detected = u.det, !.f.pc = "hm_translate"]
         [] f.pc = "hm_translate" ->
              IF u.trans = "raises"
              THEN Goto(S, "done")
              ELSE IF Falsy(Translated(u)) \/ Translated(u) = u.text
                   THEN Goto(S, "done")
                   ELSE Goto(S, "hm_format")
         [] f.pc = "hm_format" -> Call(S, "translation", "hm_reply")
         [] f.pc = "hm_except" -> Goto(S, "done")
         [] OTHER -> S

\* Where control goes when the awaited call raises: the enclosing except
\* clause, or out of the handler when there is none.
OnRaise(pc) ==
    CASE pc \in {"sc_reply", "hp_reply"} -> "raised"
      [] pc = "tg_reply_refuse" -> "tg_except"
      [] pc = "tg_lookup" -> "tg_inner_except"
      [] pc = "tg_reply_deny" -> "tg_inner_except"
      [] pc = "tg_reply_permerr" -> "tg_except"
      [] pc = "tg_reply_status" -> "tg_except"
      [] pc = "tg_reply_failed" -> "raised"
      [] pc \in {"st_reply_refuse", "st_reply_settings"} -> "st_except"
      [] pc = "st_reply_failed" -> "raised"
      [] OTHER -> "hm_except"

\* The awaited call at S.f.pc completes with outcome o.
Deliver(S, o) ==
    IF S.f.pc = "tg_lookup"
    THEN IF o = "raise"
         THEN [S EXCEPT !.f.member = LookupRaised, !.f.pc = OnRaise("tg_lookup")]
         ELSE [S EXCEPT !.f.member = o, !.f.pc = "tg_check"]
    ELSE IF o = "raise"
         THEN Goto(Settle(S, "raised"), OnRaise(S.f.pc))
         ELSE Goto(Settle(S, "ok"), "done")

\* The handler runs on until it is suspended or has ended.
RECURSIVE Run(_)
Run(S) == IF S.f.pc \in AwaitPoints \cup Terminal THEN S ELSE Run(Step(S))

Advance(S, o) == IF S.f.pc \in CallPoints THEN Deliver(S, o) ELSE Step(S)

\* ------------------------------------------------------------- actions
AllIdle == \A p \in Procs : tasks[p].pc = "idle"

\* No handler runs and no update waits.
Ready == AllIdle /\ inbox = NoUpdate

RECURSIVE TotalWrites(_, _)
TotalWrites(h, n) == IF n = 0 THEN 0 ELSE Len(h[n]) + TotalWrites(h, n - 1)

\* A /toggle in progress that has not yet written.
Unwritten(f) ==
    f.upd.cmd = "toggle" /\ f.pc \in {"tg_start", "tg_lookup", "tg_check", "tg_read", "tg_write"}

Init ==
    /\ group_settings = [c \in {} |-> TRUE]
    /\ inbox = NoUpdate
    /\ tasks = [p \in Procs |-> IdleFrame]
    /\ hist = [c \in ChatIds |-> <<>>]

\* The transport delivers an update.
Receive(u) ==
    /\ inbox = NoUpdate
    /\ u.cmd = "toggle" =>
          TotalWrites(hist, NumChats) + Cardinality({p \in Procs : Unwritten(tasks[p])})
              < MaxToggles
    /\ inbox' = u
    /\ UNCHANGED <<group_settings, tasks, hist>>

Commit(p, S) ==
    /\ tasks' = [tasks EXCEPT ![p] = S.f]
    /\ group_settings' = S.gs
    /\ hist' = S.h

\* The application calls the handler registered for the update, in the first
\* free slot; the handler runs to its first await.
Dispatch(p) ==
    /\ inbox # NoUpdate
    /\ tasks[p].pc = "idle"
    /\ \A q \in Procs : q < p => tasks[q].pc # "idle"
    /\ LET f0 == [IdleFrame EXCEPT !.upd = inbox, !.pc = Entry(inbox.cmd)]
       IN Commit(p, Run([f |-> f0, gs |-> group_settings, h |-> hist]))
    /\ inbox' = NoUpdate

\* A suspended handler is resumed and runs to its next await or to its end.
Resume(p, o) ==
    /\ tasks[p].pc \in AwaitPoints
    /\ o \in AwaitOutcomes(tasks[p].pc)
    /\ Commit(p, Run(Advance([f |-> tasks[p], gs |-> group_settings, h |-> hist], o)))
    /\ UNCHANGED inbox

\* The coroutine of a handler that has ended is discarded.
Retire(p) ==
    /\ tasks[p].pc \in Terminal
    /\ tasks' = [tasks EXCEPT ![p] = IdleFrame]
    /\ UNCHANGED <<group_settings, inbox, hist>>

\* Updates are handled one at a time: the next is taken when no handler runs.
Next ==
    \/ Ready /\ \E u \in CommandUpdates(ChatIds) : Receive(u)
    \/ Ready /\ \E c \in ChatIds, bot \in BOOLEAN, fwd \in BOOLEAN, t \in InboundTexts,
                   d \in DetectOutcomes, tr \in TranslateOutcomes :
                    Receive(TextUpdate(c, bot, fwd, t, d, tr))
    \/ AllIdle /\ \E p \in Procs : Dispatch(p)
    \/ \E p \in Procs : \E o \in {"ok", "raise"} \cup MemberStatuses : Resume(p, o)
    \/ \E p \in Procs : Retire(p)

Spec == Init /\ [][Next]_vars

\* Handlers of the updates of one group dispatched concurrently.
NextConcurrent ==
    \/ inbox = NoUpdate /\ \E u \in ConcUpdates : Receive(u)
    \/ \E p \in Procs : Dispatch(p)
    \/ \E p \in Procs : \E o \in {"ok", "raise"} \cup MemberStatuses : Resume(p, o)
    \/ \E p \in Procs : Retire(p)

SpecConcurrent == Init /\ [][NextConcurrent]_vars

\* ------------------------------------------------------------- properties
\* Slot p starts a handler in this step.
Started(p) == tasks[p].pc = "idle" /\ tasks'[p].pc # "idle"

StoredDisabled(gs, c) == c \in DOMAIN gs /\ gs[c] = FALSE

LongText == Str(<<[ch |-> "a", n |-> MaxTextLen]>>)

\* C1: a message of a group or supergroup whose chat id is stored as disabled
\* when handle_message runs gets no reply, whatever its text and whatever the
\* detector and the translator answer.
C1_DisabledGroupNoReply ==
    [][\A p \in Procs :
          (/\ Started(p)
           /\ inbox.cmd = "text"
           /\ ChatType(inbox.chat_id) \in {"group", "supergroup"}
           /\ StoredDisabled(group_settings, inbox.chat_id))
          => (tasks'[p].pc = "done" /\ tasks'[p].replies = <<>>)]_vars

C1_Witness ==
    \E p \in Procs :
        /\ tasks[p].pc = "done"
        /\ tasks[p].upd = TextUpdate(1, FALSE, FALSE, LongText, "fr", "hello")
        /\ StoredDisabled(group_settings, 1)
        /\ tasks[p].replies = <<>>

\* C2: a successful toggle of chat c always changes is_enabled(c), and two
\* successive successful toggles of c leave it as it was before the first.
C2_ToggleInvolution ==
    \A c \in ChatIds :
        /\ \A i \in 1..Len(hist[c]) :
              /\ hist[c][i].new # hist[c][i].old
              /\ i < Len(hist[c]) => hist[c][i + 1].new = hist[c][i].old
        /\ hist[c] # <<>> => IsEnabled(group_settings, c) = hist[c][Len(hist[c])].new

C2_Witness ==
    \E c \in ChatIds :
        /\ Len(hist[c]) = 2
        /\ AllIdle
        /\ IsEnabled(group_settings, c)
        /\ c \in DOMAIN group_settings

\* C3: is_enabled(c) is true for every chat on which no /toggle has succeeded,
\* and the value for c changes only in a step in which a /toggle on c itself
\* writes: not in the message pipeline, /settings, /start, /help, a rejected
\* /toggle or a /toggle on another chat.
C3_OnlyOwnToggleChanges ==
    /\ [](\A c \in ChatIds : hist[c] = <<>> => IsEnabled(group_settings, c))
    /\ [][\A c \in ChatIds :
             IsEnabled(group_settings', c) # IsEnabled(group_settings, c)
                 => Len(hist'[c]) = Len(hist[c]) + 1]_vars

C3_Witness ==
    \E p \in Procs :
        /\ tasks[p].pc = "done"
        /\ tasks[p].upd = Command("toggle", 2)
        /\ tasks[p].member = "member"
        /\ hist[2] = <<>>
        /\ IsEnabled(group_settings, 2)
        /\ StoredDisabled(group_settings, 1)

\* A /toggle that is rejected, and the reply that is specific to the rejection.
Rejected(f) ==
    /\ f.upd.cmd = "toggle"
    /\ \/ ChatType(f.upd.chat_id) \notin {"group", "supergroup"}
       \/ f.member = LookupRaised
       \/ f.member \in MemberStatuses \ {"administrator", "creator"}

RejectionReply(f) ==
    IF ChatType(f.upd.chat_id) \notin {"group", "supergroup"} THEN "refuse"
    ELSE IF f.member = LookupRaised THEN "permerr" ELSE "deny"

C5_AdminToggleFlipsAndReports ==
    [][\A p \in Procs :
          (/\ tasks[p].pc = "tg_lookup"
           /\ tasks'[p].pc # "tg_lookup"
           /\ tasks'[p].member \in {"administrator", "creator"})
          => LET c == tasks[p].upd.chat_id
                 was == IsEnabled(group_settings, c)
             IN /\ c \in DOMAIN group_settings'
                /\ group_settings'[c] = ~was
                /\ tasks'[p].pc = "tg_reply_status"
                /\ tasks'[p].replies =
                      <<[text |-> IF was THEN "status_disabled" ELSE "status_enabled",
                         result |-> "pending"]>>]_vars

C5_Witness ==
    \E p \in Procs :
        /\ tasks[p].pc = "tg_reply_status"
        /\ tasks[p].upd = Command("toggle", 1)
        /\ tasks[p].member = "creator"
        /\ tasks[p].replies = <<[text |-> "status_enabled", result |-> "pending"]>>
        /\ Len(hist[1]) = 2
        /\ 1 \in DOMAIN group_settings /\ group_settings[1] = TRUE

\* C6: a message that is a forward from a broadcast channel gets no reply.
C6_ChannelForwardNoReply ==
    \A p \in Procs :
        (tasks[p].upd.cmd = "text" /\ tasks[p].upd.fwd_channel)
            => tasks[p].replies = <<>>

\* The conditions of C7 on a message u, the store being gs when it is handled.
Eligible(u, gs) ==
    /\ ~u.is_bot
    /\ ~(ChatType(u.chat_id) \in {"group", "supergroup"} /\ ~IsEnabled(gs, u.chat_id))
    /\ ~u.text.none
    /\ StrLen(Strip(u.text.s)) >= 2
    /\ ~StartsWithSlash(u.text.s)
    /\ StrLen(u.text.s) <= 500
    /\ u.det # "en"
    /\ u.trans # "raises"
    /\ ~Translated(u).none
    /\ Translated(u).s # <<>>
    /\ Translated(u) # u.text

C8_NoExceptionEscapes ==
    \A p \in Procs :
        tasks[p].upd.cmd \in {"text", "toggle", "settings"} => tasks[p].pc # "raised"

\* C9: with /toggle handlers of one chat interleaving at their awaits no
\* update is lost: is_enabled(c) is the initial value (enabled) flipped once
\* per toggle that has made its write, so once all have completed it is
\* unchanged for an even count and negated for an odd count.
C9_NoLostToggle ==
    \A c \in ChatIds : IsEnabled(group_settings, c) = (Len(hist[c]) % 2 = 0)

C9_Witness ==
    \E p, q \in Procs :
        /\ p # q
        /\ tasks[p].upd = Command("toggle", 1) /\ tasks[p].pc = "tg_reply_status"
        /\ tasks[q].upd = Command("toggle", 1) /\ tasks[q].pc = "tg_reply_status"
        /\ Len(hist[1]) = 2
        /\ IsEnabled(group_settings, 1)

\* C10: with message handlers and /toggle handlers of one group interleaving,
\* a translation reply is never issued in a state in which the store reports
\* the group as disabled.
C10_NoReplyWhileDisabled ==
    [][\A p \in Procs :
          (/\ tasks'[p].upd.cmd = "text"
           /\ Len(tasks'[p].replies) > Len(tasks[p].replies)
           /\ ChatType(tasks'[p].upd.chat_id) \in {"group", "supergroup"})
          => IsEnabled(group_settings', tasks'[p].upd.chat_id)]_vars

C10_Witness ==
    \E p, q \in Procs :
        /\ tasks[p].upd.cmd = "text" /\ tasks[p].upd.chat_id = 1
        /\ tasks[p].pc = "hm_reply"
        /\ tasks[q].upd = Command("toggle", 1) /\ tasks[q].pc = "tg_reply_status"
        /\ StoredDisabled(group_settings, 1)
====
